---- MODULE Spec2Model ----
(***************************************************************************)
(* PostUpdateForm (src/components/post/form/PostUpdateForm.tsx).           *)
(*                                                                         *)
(* The component as a state machine: the useQuery loader, the              *)
(* react-hook-form state (current values and default values), the          *)
(* characterCount useState, the update requests awaiting their response,   *)
(* and, per submit, the side effects it has produced so far.               *)
(*                                                                         *)
(* Strings are sequences of one-character strings, so that .length is Len  *)
(* and String(n) is a real conversion to decimal digits.                   *)
(***************************************************************************)
EXTENDS Naturals, Sequences, FiniteSets

VARIABLES
    isLoading,       \* useQuery: no data yet and the fetch has not settled
    currentPost,     \* useQuery data, or undefined
    values,          \* react-hook-form: the current field values (the Draft)
    defaultValues,   \* react-hook-form: the values reset() returns to
    characterCount,  \* useState(characterCount)
    inFlight,        \* ApiService.update calls awaiting their response
    invalidations,   \* invalidateQueries calls made on the exact key ["posts"]
    trace            \* trace[n]: the side effects of the n-th submit, in order

vars == <<isLoading, currentPost, values, defaultValues, characterCount,
          inFlight, invalidations, trace>>

(***************************************************************************)
(* Bounds and inputs                                                       *)
(***************************************************************************)
\* how many times the user submits in one behaviour
MaxSubmits == 2

Rep(c, n) == [i \in 1..n |-> c]

\* a value that may be undefined is a sequence of at most one element
undefined == <<>>
defined(x) == <<x>>

\* post.id of the post prop, used for the query key and the update request
PostId == 1

TitleMax == 50
ContentMax == 500
TierHigh == 400
TierWarning == 200

\* what the query function can return for the post
Posts ==
    { [id |-> PostId, title |-> <<"H","e","l","l","o">>,
       content |-> <<"W","o","r","l","d">>, categoryId |-> 7] }

\* what the user can type into the title input
TitleInputs == { Rep("t", n) : n \in {0, TitleMax, TitleMax + 1} }

\* what the user can type into the content textarea
ContentInputs == { Rep("x", n) : n \in {0, 1, ContentMax, ContentMax + 1} }

\* the category identifiers the picker offers
CategoryInputs == {3}

\* wider inputs, for the specification of loading and editing alone
FormPosts ==
    Posts \cup
    { [id |-> PostId, title |-> <<"T">>, content |-> <<"C">>, categoryId |-> 5],
      [id |-> PostId, title |-> Rep("t", TitleMax),
       content |-> Rep("c", TierHigh + 1), categoryId |-> 120],
      [id |-> PostId, title |-> <<"T">>, content |-> <<>>, categoryId |-> 0] }

FormTitleInputs == TitleInputs \cup {<<"t">>}

FormContentInputs ==
    ContentInputs \cup
    { Rep("x", n) : n \in {TierWarning, TierWarning + 1, TierHigh, TierHigh + 1} }

FormCategoryInputs == CategoryInputs \cup {0, 12}

(***************************************************************************)
(* Pure functions                                                          *)
(***************************************************************************)
Digits == <<"0","1","2","3","4","5","6","7","8","9">>

\* String that keeps the last digit only
StringLastDigit(n) == <<Digits[(n % 10) + 1]>>

\* String(n) for a non-negative integer: its decimal digits
RECURSIVE String(_)
String(n) ==
    IF n < 10 THEN <<Digits[n + 1]>>
    ELSE String(n \div 10) \o <<Digits[(n % 10) + 1]>>

\* formSchema without the upper bound on content
formSchemaNoContentMax(v) ==
    /\ Len(v.title) >= 1 /\ Len(v.title) <= TitleMax
    /\ Len(v.content) >= 1
    /\ Len(v.categoryId) >= 1

\* z.object({title: min(1).max(50), content: min(1).max(500), categoryId: min(1)})
formSchema(v) ==
    /\ Len(v.title) >= 1 /\ Len(v.title) <= TitleMax
    /\ Len(v.content) >= 1 /\ Len(v.content) <= ContentMax
    /\ Len(v.categoryId) >= 1

\* the `required` attribute of the title input and of the content textarea
required(v) == v.title # <<>> /\ v.content # <<>>

\* counter with >= where the code has >
counterInclusive(count) ==
    IF count > 0
    THEN IF count >= TierHigh THEN "text-red-500/50"
         ELSE IF count >= TierWarning THEN "text-yellow-500/50"
         ELSE "text-black/50"
    ELSE "null"

\* the className / visibility of the counter under the textarea
counter(count) ==
    IF count > 0
    THEN IF count > TierHigh THEN "text-red-500/50"
         ELSE IF count > TierWarning THEN "text-yellow-500/50"
         ELSE "text-black/50"
    ELSE "null"

emptyValues == [title |-> <<>>, content |-> <<>>, categoryId |-> <<>>]

(***************************************************************************)
(* Initial state: first render, the query still loading                    *)
(***************************************************************************)
Init ==
    /\ isLoading = TRUE
    /\ currentPost = undefined
    /\ values = emptyValues
    /\ defaultValues = emptyValues
    /\ characterCount = (IF currentPost = undefined THEN 0 ELSE Len(currentPost[1].content))
    /\ inFlight = {}
    /\ invalidations = 0
    /\ trace = <<>>

(***************************************************************************)
(* react-hook-form reset: reset(v) installs v as values and as default     *)
(* values; reset() returns the values to the current default values.       *)
(***************************************************************************)
resetTo(v) ==
    /\ values' = v
    /\ defaultValues' = v

reset ==
    /\ values' = defaultValues
    /\ UNCHANGED defaultValues

\* populate that spares a Draft the user has edited
populateIfPristine(loading, post) ==
    IF ~loading /\ post # undefined /\ values = defaultValues
    THEN /\ resetTo([title |-> post[1].title,
                     content |-> post[1].content,
                     categoryId |-> String(post[1].categoryId)])
         /\ characterCount' = Len(post[1].content)
    ELSE UNCHANGED <<values, defaultValues, characterCount>>

(***************************************************************************)
(* The populate effect, run after a render in which isLoading or           *)
(* currentPost changed                                                     *)
(***************************************************************************)
populate(loading, post) ==
    IF ~loading /\ post # undefined
    THEN /\ resetTo([title |-> post[1].title,
                     content |-> post[1].content,
                     categoryId |-> String(post[1].categoryId)])
         /\ characterCount' = Len(post[1].content)
    ELSE UNCHANGED <<values, defaultValues, characterCount>>

\* the query settles with data
LoadReady(p) ==
    /\ isLoading
    /\ isLoading' = FALSE
    /\ currentPost' = defined(p)
    /\ populate(isLoading', currentPost')
    /\ UNCHANGED <<inFlight, invalidations, trace>>

\* the query settles with an error: no data
LoadError ==
    /\ isLoading
    /\ isLoading' = FALSE
    /\ currentPost' = undefined
    /\ populate(isLoading', currentPost')
    /\ UNCHANGED <<inFlight, invalidations, trace>>

(***************************************************************************)
(* Field edits                                                             *)
(***************************************************************************)
titleChange(v) ==
    /\ values' = [values EXCEPT !.title = v]
    /\ UNCHANGED <<isLoading, currentPost, defaultValues, characterCount,
                   inFlight, invalidations, trace>>

handleContentChange(v) ==
    /\ characterCount' = Len(v)
    /\ values' = [values EXCEPT !.content = v]
    /\ UNCHANGED <<isLoading, currentPost, defaultValues,
                   inFlight, invalidations, trace>>

categoryChange(id) ==
    /\ values' = [values EXCEPT !.categoryId = String(id)]
    /\ UNCHANGED <<isLoading, currentPost, defaultValues, characterCount,
                   inFlight, invalidations, trace>>

(***************************************************************************)
(* Submission                                                              *)
(***************************************************************************)
\* onSubmit that sends nothing while a request is outstanding
onSubmitGuarded(n, v) ==
    IF inFlight # {}
    THEN /\ trace' = Append(trace, <<"resolver", "trigger">>)
         /\ UNCHANGED inFlight
    ELSE /\ trace' = Append(trace, <<"resolver", "trigger", "update">>)
         /\ inFlight' = inFlight \cup {[n |-> n, id |-> String(PostId), body |-> v]}

\* onSubmit(v) up to its await of ApiService.update, as submit number n
onSubmit(n, v) ==
    LET isFormValid == formSchema(values)    \* form.trigger()
    IN  IF ~isFormValid
        THEN /\ trace' = Append(trace, <<"resolver", "trigger", "toast:destructive", "throw">>)
             /\ UNCHANGED inFlight
        ELSE /\ trace' = Append(trace, <<"resolver", "trigger", "update">>)
             /\ inFlight' = inFlight \cup {[n |-> n, id |-> String(PostId), body |-> v]}

\* form.handleSubmit(onSubmit): the resolver runs first and onSubmit is called
\* only when it reports no error
handleSubmit(n) ==
    IF formSchema(values)
    THEN onSubmit(n, values)
    ELSE /\ trace' = Append(trace, <<"resolver">>)
         /\ UNCHANGED inFlight

\* the user activates the submit control of the form
Submit ==
    /\ Len(trace) < MaxSubmits
    /\ IF required(values)
       THEN handleSubmit(Len(trace) + 1)
       ELSE /\ trace' = Append(trace, <<"required">>)
            /\ UNCHANGED inFlight
    /\ UNCHANGED <<isLoading, currentPost, values, defaultValues,
                   characterCount, invalidations>>

\* UpdateSucceeds with the notification before the reset
UpdateSucceedsToastFirst(r) ==
    /\ r \in inFlight
    /\ inFlight' = inFlight \ {r}
    /\ invalidations' = invalidations + 1
    /\ reset
    /\ characterCount' = 0
    /\ trace' = [trace EXCEPT ![r.n] =
                    @ \o <<"resolved", "invalidateQueries", "toast", "reset",
                           "setCharacterCount">>]
    /\ UNCHANGED <<isLoading, currentPost>>

\* UpdateFails that resets the form like the success path
UpdateFailsResetting(r) ==
    /\ r \in inFlight
    /\ inFlight' = inFlight \ {r}
    /\ reset
    /\ characterCount' = 0
    /\ trace' = [trace EXCEPT ![r.n] = @ \o <<"rejected", "toast:destructive", "throw">>]
    /\ UNCHANGED <<isLoading, currentPost, invalidations>>

\* ApiService.update resolves: the rest of the try block
UpdateSucceeds(r) ==
    /\ r \in inFlight
    /\ inFlight' = inFlight \ {r}
    /\ invalidations' = invalidations + 1
    /\ reset
    /\ characterCount' = 0
    /\ trace' = [trace EXCEPT ![r.n] =
                    @ \o <<"resolved", "invalidateQueries", "reset",
                           "setCharacterCount", "toast">>]
    /\ UNCHANGED <<isLoading, currentPost>>

\* ApiService.update rejects: the catch block
UpdateFails(r) ==
    /\ r \in inFlight
    /\ inFlight' = inFlight \ {r}
    /\ trace' = [trace EXCEPT ![r.n] = @ \o <<"rejected", "toast:destructive", "throw">>]
    /\ UNCHANGED <<isLoading, currentPost, values, defaultValues,
                   characterCount, invalidations>>

\* the response of one outstanding update request arrives
UpdateResolves == \E r \in inFlight : UpdateSucceeds(r)

UpdateRejects == \E r \in inFlight : UpdateFails(r)

Next ==
    \/ \E p \in Posts : LoadReady(p)
    \/ LoadError
    \/ \E v \in TitleInputs : titleChange(v)
    \/ \E v \in ContentInputs : handleContentChange(v)
    \/ \E id \in CategoryInputs : categoryChange(id)
    \/ Submit
    \/ UpdateResolves
    \/ UpdateRejects

Spec == Init /\ [][Next]_vars

\* loading and editing alone, over the wider inputs
NextForm ==
    \/ \E p \in FormPosts : LoadReady(p)
    \/ LoadError
    \/ \E v \in FormTitleInputs : titleChange(v)
    \/ \E v \in FormContentInputs : handleContentChange(v)
    \/ \E id \in FormCategoryInputs : categoryChange(id)

SpecForm == Init /\ [][NextForm]_vars

(***************************************************************************)
(* Vocabulary of the properties                                            *)
(***************************************************************************)
Range(s) == { s[i] : i \in DOMAIN s }

Last(s) == s[Len(s)]

\* a appears before b wherever both appear in s
Before(a, b, s) == \A i, j \in DOMAIN s : (s[i] = a /\ s[j] = b) => i < j

\* the n-th submit has produced effect e
Did(n, e) == e \in Range(trace[n])

\* the value of a decimal numeral
RECURSIVE Number(_)
Number(s) ==
    IF s = <<>> THEN 0
    ELSE 10 * Number(SubSeq(s, 1, Len(s) - 1))
         + (CHOOSE d \in 0..9 : Digits[d + 1] = s[Len(s)])

\* s is the decimal numeral of n
IsNumeral(s, n) ==
    /\ Len(s) >= 1
    /\ \A i \in DOMAIN s : \E d \in 0..9 : Digits[d + 1] = s[i]
    /\ Len(s) > 1 => s[1] # "0"
    /\ Number(s) = n

\* a Draft that fails the schema, in the words of the specification
FailsSchema(v) ==
    \/ Len(v.title) = 0 \/ Len(v.title) > 50
    \/ Len(v.content) = 0 \/ Len(v.content) > 500
    \/ Len(v.categoryId) = 0

\* this step is a submit
SubmitStep == Len(trace') = Len(trace) + 1

\* this step is the completion of the n-th submit's update request
CompletionStep(n) ==
    /\ Len(trace') = Len(trace)
    /\ n \in DOMAIN trace
    /\ trace'[n] # trace[n]

\* this step is the query settling with data
LoadedStep == isLoading /\ ~isLoading' /\ currentPost' # undefined

\* the Draft a loaded post gives
DraftOf(p, v) ==
    /\ v.title = p.title
    /\ v.content = p.content
    /\ IsNumeral(v.categoryId, p.categoryId)

(***************************************************************************)
(* C1: a submit of a Draft whose title, content or categoryId is empty,    *)
(* or whose title is longer than 50 or content longer than 500, is         *)
(* rejected and issues no update request; no update request ever carries   *)
(* a body that fails the schema.                                           *)
(***************************************************************************)
C1_InvalidDraftNeverSent ==
    /\ [](\A r \in inFlight : ~FailsSchema(r.body))
    /\ [][(SubmitStep /\ FailsSchema(values)) =>
            /\ inFlight' = inFlight
            /\ "update" \notin Range(Last(trace'))]_vars

C1_Witness ==
    /\ Len(trace) = 2
    /\ trace[1] = <<"resolver">>
    /\ Did(2, "update")
    /\ Len(values.content) = 500
    /\ inFlight # {}

(***************************************************************************)
(* C2: after a valid update request succeeds, the Draft is the empty       *)
(* values and characterCount is 0, also when the Draft had been populated  *)
(* from the loaded post.                                                   *)
(***************************************************************************)
C2_ResetToEmptyAfterSuccess ==
    [][\A n \in DOMAIN trace :
          (CompletionStep(n) /\ "resolved" \in Range(trace'[n])) =>
              /\ values' = emptyValues
              /\ characterCount' = 0]_vars

(***************************************************************************)
(* C3: in every reachable state characterCount is the length of the        *)
(* current Draft content.                                                  *)
(***************************************************************************)
C3_CountIsContentLength == characterCount = Len(values.content)

(***************************************************************************)
(* C4: when the update request of a valid submit fails, a destructive      *)
(* notification is emitted and the failure is rethrown, and the failure    *)
(* handling leaves the Draft, characterCount and the "posts" cache as they *)
(* were: no reset, no invalidation.                                        *)
(***************************************************************************)
C4_FailureKeepsDraft ==
    [][\A n \in DOMAIN trace :
          (CompletionStep(n) /\ "rejected" \in Range(trace'[n])) =>
              /\ "toast:destructive" \in Range(trace'[n])
              /\ Last(trace'[n]) = "throw"
              /\ "reset" \notin Range(trace'[n])
              /\ "invalidateQueries" \notin Range(trace'[n])
              /\ values' = values
              /\ defaultValues' = defaultValues
              /\ characterCount' = characterCount
              /\ invalidations' = invalidations]_vars

C4_Witness ==
    \E n \in DOMAIN trace :
        /\ Did(n, "rejected")
        /\ Did(n, "toast:destructive")
        /\ values # emptyValues
        /\ values # defaultValues
        /\ characterCount = 500

(***************************************************************************)
(* C5: within one submit the side effects come in the order validation,    *)
(* update request, invalidation of "posts", local reset of the Draft and   *)
(* of characterCount, success notification; invalidation and reset happen  *)
(* only once the request has succeeded, and before the notification.       *)
(***************************************************************************)
C5_Ordered(s) ==
    /\ Before("resolver", "update", s)
    /\ Before("trigger", "update", s)
    /\ Before("update", "resolved", s)
    /\ Before("resolved", "invalidateQueries", s)
    /\ Before("invalidateQueries", "reset", s)
    /\ Before("invalidateQueries", "setCharacterCount", s)
    /\ Before("reset", "toast", s)
    /\ Before("setCharacterCount", "toast", s)
    /\ "update" \in Range(s) => {"resolver", "trigger"} \subseteq Range(s)
    /\ \A e \in {"invalidateQueries", "reset", "setCharacterCount"} :
          e \in Range(s) => ("resolved" \in Range(s) /\ "rejected" \notin Range(s))
    /\ "toast" \in Range(s) =>
          {"invalidateQueries", "reset", "setCharacterCount"} \subseteq Range(s)
    /\ \A i, j \in DOMAIN s : s[i] = s[j] => i = j

C5_SideEffectOrder ==
    /\ [](\A n \in DOMAIN trace : C5_Ordered(trace[n]))
    /\ [][invalidations' # invalidations =>
            \E n \in DOMAIN trace :
                /\ CompletionStep(n)
                /\ "update" \in Range(trace[n])
                /\ "resolved" \in Range(trace'[n])]_vars

C5_Witness ==
    \E m, n \in DOMAIN trace :
        /\ Last(trace[m]) = "toast"
        /\ Last(trace[n]) = "throw"
        /\ invalidations = 1

(***************************************************************************)
(* C6: a submit, through form.handleSubmit(onSubmit), of a Draft that      *)
(* fails the schema emits a destructive notification, is rejected and      *)
(* leaves the Draft untouched.                                             *)
(***************************************************************************)
C6_InvalidSubmitNotifies ==
    [][(SubmitStep /\ FailsSchema(values) /\ "resolver" \in Range(Last(trace'))) =>
          /\ "toast:destructive" \in Range(Last(trace'))
          /\ "update" \notin Range(Last(trace'))
          /\ inFlight' = inFlight
          /\ values' = values]_vars

(***************************************************************************)
(* C7: when the query settles with a post, the Draft right after the       *)
(* populate effect is the post's title, its content and the decimal        *)
(* numeral of its categoryId, and characterCount is the length of the      *)
(* post's content.  Load of {Hello, World, 7} gives {Hello, World, "7"}    *)
(* and 5.                                                                  *)
(***************************************************************************)
C7_PopulatedFromPost ==
    [][LoadedStep =>
          /\ DraftOf(currentPost'[1], values')
          /\ characterCount' = Len(currentPost'[1].content)
          /\ (currentPost'[1].content = <<"W","o","r","l","d">>
              /\ currentPost'[1].categoryId = 7) =>
                  (values'.categoryId = <<"7">> /\ characterCount' = 5)]_vars

C7_Witness ==
    /\ ~isLoading
    /\ currentPost # undefined
    /\ currentPost[1].categoryId = 120
    /\ values.categoryId = <<"1", "2", "0">>
    /\ characterCount = 401

(***************************************************************************)
(* C8: after a content edit to a string of length L, characterCount is L,  *)
(* and the counter is hidden iff L = 0, high-alert iff L > 400, warning    *)
(* iff 200 < L <= 400 and neutral iff 0 < L <= 200.                        *)
(***************************************************************************)
C8_CounterFollowsEdit ==
    [][\A v \in FormContentInputs :
          handleContentChange(v) =>
              LET L == Len(v)
                  shown == counter(characterCount')
              IN  /\ characterCount' = L
                  /\ (shown = "null") <=> (L = 0)
                  /\ (shown = "text-red-500/50") <=> (L > 400)
                  /\ (shown = "text-yellow-500/50") <=> (200 < L /\ L <= 400)
                  /\ (shown = "text-black/50") <=> (0 < L /\ L <= 200)]_vars

C8_Witness ==
    /\ Len(values.content) = 400
    /\ characterCount = 400
    /\ counter(characterCount) = "text-yellow-500/50"
    /\ values.content # defaultValues.content

(***************************************************************************)
(* C9: when the load completes, the populate effect replaces the whole     *)
(* Draft and characterCount by the loaded post's values, whatever the user *)
(* had typed before; the effect writes only when the query settles with    *)
(* data, never while it is loading nor when it settles with an error.      *)
(***************************************************************************)
C9_LoadClobbersEdits ==
    [][/\ LoadedStep =>
            /\ DraftOf(currentPost'[1], values')
            /\ defaultValues' = values'
            /\ characterCount' = Len(currentPost'[1].content)
       /\ (isLoading /\ ~isLoading' /\ currentPost' = undefined) =>
            UNCHANGED <<values, defaultValues, characterCount>>
       /\ defaultValues' # defaultValues => LoadedStep
       /\ isLoading' => UNCHANGED defaultValues]_vars

\* no reset has run (no invalidation), yet the Draft is the post's although a
\* request still in flight carries a title the user typed: typed before the load
C9_Witness ==
    /\ ~isLoading
    /\ currentPost # undefined
    /\ DraftOf(currentPost[1], values)
    /\ invalidations = 0
    /\ \E r \in inFlight : r.body.title # currentPost[1].title

(***************************************************************************)
(* C10: nothing guards against overlapping submissions: a submit of a      *)
(* valid Draft always issues a new update request for the post, also while *)
(* earlier ones are outstanding, and each completion handles its own       *)
(* request alone.                                                          *)
(***************************************************************************)
C10_OverlappingSubmits ==
    [][/\ (SubmitStep /\ ~FailsSchema(values)) =>
            \E r \in inFlight' \ inFlight :
                /\ inFlight' = inFlight \cup {r}
                /\ r.body = values
                /\ IsNumeral(r.id, PostId)
       /\ \A n \in DOMAIN trace : CompletionStep(n) =>
            /\ \E r \in inFlight : r.n = n /\ inFlight' = inFlight \ {r}
            /\ \A m \in DOMAIN trace : m # n => trace'[m] = trace[m]
            /\ Last(trace'[n]) \in {"toast", "throw"}]_vars

C10_Witness ==
    \E r1, r2 \in inFlight :
        /\ r1.n # r2.n
        /\ r1.id = r2.id
        /\ r1.body = r2.body

====
